---- MODULE Spec2Model ----
(***************************************************************************)
(* State-machine model of the chat component App of src/index.tsx: the     *)
(* React state (messages, input, isLoading), the async handler handleSend  *)
(* split at its suspension points (the await of line 81 and each turn of   *)
(* the for-await loop of line 85), the New Chat button and the text box.   *)
(*                                                                         *)
(* Strings are sequences of one-character strings, so that trim() and      *)
(* the += of line 88 are computed rather than assumed.  An optional field  *)
(* that the source leaves out (isStreaming on the user turn of line 51     *)
(* and on the apology turn of line 112) is left out of the record too.     *)
(*                                                                         *)
(* Event handlers run to completion and React applies the state updates    *)
(* of one handler run as a batch, so each synchronous stretch of code is   *)
(* one action.  A discrete event (click, key) is rendered before the next  *)
(* event is dispatched, so the values a handler closes over are the        *)
(* current state.                                                          *)
(*                                                                         *)
(* A state updater that throws (lines 91-92 and 103-104 on an empty        *)
(* array) throws while React renders, outside the try of line 54: with no  *)
(* error boundary the root unmounts (mounted = FALSE), after which no      *)
(* event reaches the component and its setState calls have no effect.      *)
(* isSidebarOpen (line 36) affects layout only and is left out.            *)
(***************************************************************************)
EXTENDS Naturals, Sequences, FiniteSets

VARIABLES
    messages,   \* useState<Message[]>, line 33
    input,      \* useState(""), line 34
    isLoading,  \* useState(false), line 35
    calls,      \* the invocations of handleSend that passed line 45 and are
                \* suspended, and those that returned since the last
                \* submission or New Chat
    mounted     \* the React root still renders App (no render-phase error yet)

vars == <<messages, input, isLoading, calls, mounted>>

---------------------------------------------------------------------------
(* Bounds of the model *)

\* a submission is accepted only while the conversation holds fewer turns
MaxTurns == 4

\* chunks one stream delivers at most
MaxChunks == 2

---------------------------------------------------------------------------
(* Values *)

WhiteSpace == {" ", "\n"}

\* what the text box (line 275) or a suggestion card (line 223) can set
Inputs == { <<>>, <<" ">>, <<"a">>, <<" ", "b", "\n">> }

\* chunk.text of one streamed chunk; <<>> is a chunk without text (line 87)
Fragments == { <<>>, <<"x">>, <<"y">> }

ApologyText == <<"Sorry, I encountered an error. Please try again.">>

---------------------------------------------------------------------------
(* Pure helpers *)

RECURSIVE trimStart(_)
trimStart(s) ==
    IF s # <<>> /\ Head(s) \in WhiteSpace THEN trimStart(Tail(s)) ELSE s

RECURSIVE trimEnd(_)
trimEnd(s) ==
    IF s # <<>> /\ s[Len(s)] \in WhiteSpace
    THEN trimEnd(SubSeq(s, 1, Len(s) - 1))
    ELSE s

\* String.prototype.trim
trim(s) == trimEnd(trimStart(s))

\* the guard without the in-flight test
RejectsSendBlankOnly(inp, loading) == trim(inp) = <<>>

\* the guard testing the raw input instead of the trimmed one
RejectsSendUntrimmed(inp, loading) == inp = <<>> \/ loading

\* the guard of line 45: true when handleSend returns at once
RejectsSend(inp, loading) == trim(inp) = <<>> \/ loading

UserTurn(t) == [role |-> "user", text |-> t]

PlaceholderTurn == [role |-> "model", text |-> <<>>, isStreaming |-> TRUE]

ApologyTurn == [role |-> "model", text |-> ApologyText]

\* truthiness of msg.isStreaming, as read at line 257
Streaming(m) == "isStreaming" \in DOMAIN m /\ m.isStreaming

\* a history that keeps the user turns only
toHistoryUserOnly(msgs) ==
    LET users == SelectSeq(msgs, LAMBDA m : m.role = "user")
    IN  [j \in 1..Len(users) |->
            [role |-> users[j].role, parts |-> <<[text |-> users[j].text]>>]]

\* lines 65-68: messages.map(m => ({role, parts: [{text}]}))
toHistory(msgs) ==
    [j \in 1..Len(msgs) |->
        [role |-> msgs[j].role, parts |-> <<[text |-> msgs[j].text]>>]]

\* the running total overwritten by the latest fragment
AccumulateLatest(fullText, fragment) == fragment

\* line 88: fullText += c.text
Accumulate(fullText, fragment) == fullText \o fragment

\* newArr[newArr.length - 1] is undefined on an empty array, and reading
\* .role of it (lines 92, 104) throws a TypeError inside the updater
UpdaterThrows(prev) == prev = <<>>

\* lines 89-96, on a non-empty prev: lastMsg.text = fullText
ApplyChunk(prev, fullText) ==
    IF prev[Len(prev)].role = "model"
    THEN [prev EXCEPT ![Len(prev)].text = fullText]
    ELSE prev

\* lines 101-108, on a non-empty prev: lastMsg.isStreaming = false
Settle(prev) ==
    IF prev[Len(prev)].role = "model"
    THEN [prev EXCEPT ![Len(prev)] =
            [role |-> @.role, text |-> @.text, isStreaming |-> FALSE]]
    ELSE prev

\* the apology written over the last turn instead of appended
ReplaceByApology(prev) ==
    IF prev = <<>> THEN <<ApologyTurn>>
    ELSE [prev EXCEPT ![Len(prev)] = ApologyTurn]

\* line 112
AppendApology(prev) == Append(prev, ApologyTurn)

---------------------------------------------------------------------------
(* One invocation of handleSend: its locals and where it is suspended.     *)
(* closure is the messages value the handler closed over (read at line     *)
(* 65).  received and wasReset are history variables: the fragments the    *)
(* service has delivered so far, and whether New Chat was clicked while    *)
(* the invocation was suspended.  An invocation that has returned is kept  *)
(* (pc = "returned") until the next accepted submission or New Chat.       *)

NewCall(userMessage, closure, pc, outcome) ==
    [ pc          |-> pc,
      outcome     |-> outcome,
      userMessage |-> userMessage,
      closure     |-> closure,
      history     |-> toHistory(closure),
      fullText    |-> <<>>,
      received    |-> <<>>,
      wasReset    |-> FALSE ]

Running(c) == c.pc \in {"await", "stream"}

InFlight == { i \in DOMAIN calls : Running(calls[i]) }

Init ==
    /\ messages = <<>>
    /\ input = <<>>
    /\ isLoading = FALSE
    /\ calls = <<>>
    /\ mounted = TRUE

---------------------------------------------------------------------------
(* User events *)

\* onChange of the text box (line 275), or a suggestion card (line 223)
SetInput(v) ==
    /\ mounted
    /\ input' = v
    /\ UNCHANGED <<messages, isLoading, calls, mounted>>

\* the New Chat button, line 146: setMessages([])
NewChat ==
    /\ mounted
    /\ messages' = <<>>
    /\ calls' = LET live == SelectSeq(calls, Running)
                 IN  [i \in DOMAIN live |-> [live[i] EXCEPT !.wasReset = TRUE]]
    /\ UNCHANGED <<input, isLoading, mounted>>

\* handleSend from the Send button (line 294) or Enter (line 121), up to its
\* first suspension: lines 45-81, or 45-76 and 110-115 when building the
\* client or the chat throws
HandleSend ==
    /\ mounted
    /\ IF RejectsSend(input, isLoading)
       THEN UNCHANGED vars
       ELSE /\ Len(messages) < MaxTurns
            /\ input' = <<>>
            /\ UNCHANGED mounted
            /\ LET userMessage == trim(input)
                   withUser == Append(messages, UserTurn(userMessage))
               IN  \/ /\ messages' = Append(withUser, PlaceholderTurn)
                      /\ isLoading' = TRUE
                      /\ calls' = Append(SelectSeq(calls, Running),
                            NewCall(userMessage, messages, "await", "none"))
                   \/ /\ messages' = AppendApology(withUser)
                      /\ isLoading' = FALSE
                      /\ calls' = Append(SelectSeq(calls, Running),
                            NewCall(userMessage, messages, "returned", "failed"))

---------------------------------------------------------------------------
(* Continuations of a suspended handleSend *)

\* catch and finally, lines 110-115; setState on an unmounted root is ignored
CatchFinally(i) ==
    /\ calls' = [calls EXCEPT ![i].pc = "returned", ![i].outcome = "failed"]
    /\ messages' = IF mounted THEN AppendApology(messages) ELSE messages
    /\ isLoading' = IF mounted THEN FALSE ELSE isLoading
    /\ UNCHANGED <<input, mounted>>

\* line 81: the promise of sendMessageStream resolves
AwaitResolves(i) ==
    /\ calls[i].pc = "await"
    /\ calls' = [calls EXCEPT ![i].pc = "stream"]
    /\ UNCHANGED <<messages, input, isLoading, mounted>>

\* line 81: the promise of sendMessageStream rejects
AwaitRejects(i) ==
    /\ calls[i].pc = "await"
    /\ CatchFinally(i)

\* lines 85-98: one chunk of the stream
NextChunk(i, fragment) ==
    /\ calls[i].pc = "stream"
    /\ Len(calls[i].received) < MaxChunks
    /\ UNCHANGED <<input, isLoading>>
    /\ IF fragment = <<>>
       THEN /\ calls' = [calls EXCEPT ![i].received = Append(@, fragment)]
            /\ UNCHANGED <<messages, mounted>>
       ELSE LET fullText == Accumulate(calls[i].fullText, fragment)
            IN  /\ calls' = [calls EXCEPT ![i].received = Append(@, fragment),
                                          ![i].fullText = fullText]
                /\ IF ~mounted
                   THEN UNCHANGED <<messages, mounted>>
                   ELSE IF UpdaterThrows(messages)
                   THEN mounted' = FALSE /\ UNCHANGED messages
                   ELSE messages' = ApplyChunk(messages, fullText)
                        /\ UNCHANGED mounted

\* lines 100-108 and 113-115: the stream ends
StreamEnds(i) ==
    /\ calls[i].pc = "stream"
    /\ calls' = [calls EXCEPT ![i].pc = "returned", ![i].outcome = "completed"]
    /\ UNCHANGED input
    /\ IF ~mounted
       THEN UNCHANGED <<messages, isLoading, mounted>>
       ELSE IF UpdaterThrows(messages)
       THEN mounted' = FALSE /\ UNCHANGED <<messages, isLoading>>
       ELSE /\ messages' = Settle(messages)
            /\ isLoading' = FALSE
            /\ UNCHANGED mounted

\* line 85: the stream fails while it is iterated
StreamThrows(i) ==
    /\ calls[i].pc = "stream"
    /\ CatchFinally(i)

Next ==
    \/ \E v \in Inputs : SetInput(v)
    \/ NewChat
    \/ HandleSend
    \/ \E i \in DOMAIN calls : AwaitResolves(i)
    \/ \E i \in DOMAIN calls : AwaitRejects(i)
    \/ \E i \in DOMAIN calls, f \in Fragments : NextChunk(i, f)
    \/ \E i \in DOMAIN calls : StreamEnds(i)
    \/ \E i \in DOMAIN calls : StreamThrows(i)

Spec == Init /\ [][Next]_vars

\* the service's steps: a promise settles, a chunk arrives, the stream ends
ServiceStep ==
    \E i \in DOMAIN calls :
        \/ AwaitResolves(i)
        \/ AwaitRejects(i)
        \/ StreamEnds(i)
        \/ StreamThrows(i)
        \/ \E f \in Fragments : NextChunk(i, f)

\* every opened stream eventually ends or fails
FairSpec == Spec /\ WF_vars(ServiceStep)

---------------------------------------------------------------------------
(* Vocabulary of the properties *)

StreamingTurns == { j \in DOMAIN messages : Streaming(messages[j]) }

NoStreaming == StreamingTurns = {}

RECURSIVE Concat(_)
Concat(frags) ==
    IF frags = <<>> THEN <<>> ELSE Head(frags) \o Concat(Tail(frags))

IsPrefix(a, b) == Len(a) <= Len(b) /\ SubSeq(b, 1, Len(a)) = a

Returned(c, outcome) == c.pc = "returned" /\ c.outcome = outcome

\* where the placeholder of invocation c was appended
PlaceholderAt(c) == Len(c.closure) + 2

---------------------------------------------------------------------------
(* Properties *)

\* C1: at most one turn has streaming = true, in every reachable state.
C1_AtMostOneStreaming == Cardinality(StreamingTurns) <= 1

\* C2: once an exchange has ended by a failure of the service, the
\* conversation is the one before the submission plus exactly two turns, the
\* user turn and the apology turn, no turn is streaming and isLoading is false.
C2_FailureLeavesTwoTurns ==
    \A i \in DOMAIN calls :
        Returned(calls[i], "failed") =>
            /\ messages = calls[i].closure
                    \o <<UserTurn(calls[i].userMessage), ApologyTurn>>
            /\ NoStreaming
            /\ ~isLoading

\* C3: a submission attempted while isLoading is true changes nothing, no
\* request is opened while isLoading is true, and at most one exchange is in
\* flight in every reachable state.
C3_SubmitWhileLoadingIgnored ==
    /\ [](Cardinality(InFlight) <= 1)
    /\ [][(isLoading /\ HandleSend) => UNCHANGED vars]_vars
    /\ [][isLoading => Cardinality(InFlight') <= Cardinality(InFlight)]_vars

C3_Witness ==
    /\ mounted /\ isLoading /\ trim(input) # <<>>
    /\ InFlight # {}
    /\ Len(messages) < MaxTurns

\* C4: with no failure and no reset during the exchange, after every
\* fragment the open model turn's text is the concatenation, in arrival
\* order, of the fragments delivered so far; after the stream has ended the
\* text is the concatenation of all of them, the turn is not streaming and
\* isLoading is false.
C4_TextIsConcatenation ==
    \A i \in DOMAIN calls :
        LET c == calls[i]
            p == PlaceholderAt(c)
        IN  (~c.wasReset /\ (Running(c) \/ Returned(c, "completed"))) =>
                /\ Len(messages) = p
                /\ messages[p].role = "model"
                /\ messages[p].text = Concat(c.received)
                /\ Streaming(messages[p]) = Running(c)
                /\ Returned(c, "completed") => ~isLoading

C4_Witness ==
    \E i \in DOMAIN calls :
        /\ Returned(calls[i], "completed") /\ ~calls[i].wasReset
        /\ calls[i].received = << <<"x">>, <<"y">> >>
        /\ messages[Len(messages)].text = <<"x", "y">>

\* C5 (liveness): once isLoading is true it eventually becomes false again.
C5_LoadingEventuallyCleared == isLoading ~> ~isLoading

\* C5 (as a final result): when no exchange is running any more, isLoading
\* is false and the component accepts a submission.
C5_IdleMeansNotLoading == InFlight = {} => (~isLoading /\ mounted)

\* C6: the history passed to the service is the sequence of the turns that
\* existed before the submission, in order, each with its role and text; in
\* a conversation not reset since, these are the turns before the submitted
\* user turn, so the history holds neither that turn nor the placeholder,
\* and each earlier user turn once.
C6_HistoryIsPriorTurns ==
    \A i \in DOMAIN calls :
        LET c == calls[i]
            h == c.history
            n == Len(c.closure)
        IN  /\ Len(h) = n
            /\ \A j \in 1..n :
                    /\ h[j].role = c.closure[j].role
                    /\ h[j].parts = <<[text |-> c.closure[j].text]>>
            /\ ~c.wasReset =>
                    /\ Len(messages) > n
                    /\ messages[n + 1] = UserTurn(c.userMessage)
                    /\ \A j \in 1..n :
                            h[j] = [role |-> messages[j].role,
                                    parts |-> <<[text |-> messages[j].text]>>]
                    /\ Cardinality({j \in 1..n : h[j].role = "user"})
                         = Cardinality({j \in 1..n : messages[j].role = "user"})

C6_Witness ==
    \E i \in DOMAIN calls :
        /\ ~calls[i].wasReset /\ Running(calls[i])
        /\ Len(calls[i].history) = 2
        /\ calls[i].history[1] = [role |-> "user", parts |-> <<[text |-> <<"b">>]>>]
        /\ calls[i].history[2] = [role |-> "model", parts |-> <<[text |-> <<"x", "y">>]>>]
        /\ calls[i].userMessage = <<"a">>

\* C7: whenever isLoading is false, no turn has streaming = true.
C7_IdleMeansNoStreaming == ~isLoading => NoStreaming

\* C8: a submission whose input is empty or only whitespace, made while
\* idle, changes nothing; in such a state no step appends a turn, opens a
\* request or sets isLoading.
C8_BlankSubmitIsNoOp ==
    [][(~isLoading /\ trim(input) = <<>>) =>
            /\ HandleSend => UNCHANGED vars
            /\ Len(messages') <= Len(messages)
            /\ InFlight' = {}
            /\ ~isLoading']_vars

C8_Witness ==
    /\ mounted /\ ~isLoading
    /\ input # <<>> /\ trim(input) = <<>>
    /\ messages # <<>>
    /\ Len(messages) < MaxTurns

\* C9: while an exchange is in flight the conversation is never cleared:
\* it is non-empty and its last turn is the streaming placeholder that the
\* exchange opened.
C9_NeverClearedInFlight ==
    \A i \in InFlight :
        /\ ~calls[i].wasReset
        /\ Len(messages) = PlaceholderAt(calls[i])
        /\ messages[Len(messages)].role = "model"
        /\ Streaming(messages[Len(messages)])

\* a step that keeps every turn, but for the last one when it is the
\* streaming placeholder of a running exchange, whose text may grow and
\* whose flag may change
AppendOnlyStep ==
    /\ Len(messages') >= Len(messages)
    /\ \A j \in DOMAIN messages :
            \/ messages'[j] = messages[j]
            \/ /\ j = Len(messages)
               /\ Len(messages') = Len(messages)
               /\ messages[j].role = "model"
               /\ Streaming(messages[j])
               /\ \E i \in InFlight : PlaceholderAt(calls[i]) = j
               /\ messages'[j].role = "model"
               /\ IsPrefix(messages[j].text, messages'[j].text)

\* C10: every step other than a reset keeps the turn sequence append-only:
\* turns keep their positions, a user turn and a model turn whose exchange
\* has ended never change, and only the last turn, while it is the streaming
\* placeholder of the running exchange, may change, its text only growing.
C10_AppendOnlyBetweenResets == [][NewChat \/ AppendOnlyStep]_vars

C10_Witness ==
    /\ Len(messages) = 5
    /\ messages[2].role = "model" /\ Streaming(messages[2])
    /\ messages[2].text = <<"x">>
    /\ messages[3] = ApologyTurn
    /\ messages[5].text = <<"y", "x">>
    /\ ~Streaming(messages[5])

====
